---- MODULE Spec2Model ----
(***************************************************************************)
(* microblog-gen: the post-rendering pipeline and the publication-date     *)
(* registry (pkg/blog.go, pkg/blogpost.go, pkg/registry.go).               *)
(*                                                                         *)
(* One collection directory is modelled.  Its backing store is the file    *)
(* <directory>/blog.sqlite; the file outlives the process, the Registry    *)
(* Pool (sqlitePool) does not.  Goroutines are the tasks 1..NumPosts; each *)
(* executes WriteHtml in the steps at which it touches shared state (the   *)
(* pool map, the store file, the clock).  One SQL statement is one atomic  *)
(* step of the store; lock contention between connections is not          *)
(* modelled.  A store file truncated under an open connection is read as   *)
(* what is on disk: an empty database.                                     *)
(***************************************************************************)
EXTENDS Integers, Sequences, FiniteSets, TLC

\* ------------------------------------------------------------- bounds
NumPosts == 2        \* posts (*.md files) of the collection; one task per post
MaxNow == 5          \* the clock stops advancing at this tick
MaxRuns == 2         \* process runs (builds) over the same directory
MaxCalls == 3        \* direct registry calls in the registry harness
TicksPerDay == 2     \* clock ticks per calendar day
MaxNodes == 3        \* top-level nodes of a document in the extraction harness
MaxTemplateLen == 2  \* actions of a template text

Posts == 1..NumPosts
Tasks == 1..NumPosts
Nil == 0             \* nil *time.Time / no handle / no entry
NoErr == "nil"       \* nil error

\* ------------------------------------------------------------- time
\* Calendar day of an instant in UTC (time.DateOnly of a UTC time, CURRENT_DATE).
UTCDay(t) == t \div TicksPerDay

\* A DATE column scanned into *time.Time: midnight UTC of the stored day.
Midnight(day) == day * TicksPerDay

\* dtPosted.Format(time.DateOnly): the calendar day of the instant, in its zone.
FormatDateOnly(t, off) == (t + off) \div TicksPerDay

\* ------------------------------------------------------------- documents
BlockKinds == {"H", "P", "O"}     \* *ast.Heading, *ast.Paragraph, any other node

\* The loop over the top-level nodes: returns the error at which the loop
\* returns, or the heading flag and the paragraph count after the last node.
RECURSIVE MutScanNodesLastHeading(_, _, _, _)
MutScanNodesLastHeading(nodes, i, heading, paragraphs) ==
  IF i > Len(nodes) THEN [err |-> NoErr, heading |-> heading, paragraphs |-> paragraphs]
  ELSE IF nodes[i] = "H"
       THEN MutScanNodesLastHeading(nodes, i + 1, TRUE, paragraphs)
       ELSE IF nodes[i] = "P"
            THEN MutScanNodesLastHeading(nodes, i + 1, heading, Append(paragraphs, i))
            ELSE [err |-> "UnsupportedBlock", heading |-> heading, paragraphs |-> paragraphs]

RECURSIVE MutScanNodesSkipOther(_, _, _, _)
MutScanNodesSkipOther(nodes, i, heading, paragraphs) ==
  IF i > Len(nodes) THEN [err |-> NoErr, heading |-> heading, paragraphs |-> paragraphs]
  ELSE IF nodes[i] = "H"
       THEN IF heading
            THEN [err |-> "MultipleHeadings", heading |-> heading, paragraphs |-> paragraphs]
            ELSE MutScanNodesSkipOther(nodes, i + 1, TRUE, paragraphs)
       ELSE IF nodes[i] = "P"
            THEN MutScanNodesSkipOther(nodes, i + 1, heading, Append(paragraphs, i))
            ELSE MutScanNodesSkipOther(nodes, i + 1, heading, paragraphs)

RECURSIVE ScanNodes(_, _, _, _)
ScanNodes(nodes, i, heading, paragraphs) ==
  IF i > Len(nodes) THEN [err |-> NoErr, heading |-> heading, paragraphs |-> paragraphs]
  ELSE IF nodes[i] = "H"
       THEN IF heading
            THEN [err |-> "MultipleHeadings", heading |-> heading, paragraphs |-> paragraphs]
            ELSE ScanNodes(nodes, i + 1, TRUE, paragraphs)
       ELSE IF nodes[i] = "P"
            THEN ScanNodes(nodes, i + 1, heading, Append(paragraphs, i))
            ELSE [err |-> "UnsupportedBlock", heading |-> heading, paragraphs |-> paragraphs]

\* Extraction of WriteHtml: the error, or the paragraphs (node indices) in order.
MutExtractFirstParagraph(nodes) ==
  LET s == ScanNodes(nodes, 1, FALSE, <<>>)
  IN  IF s.err # NoErr THEN s
      ELSE IF ~s.heading THEN [s EXCEPT !.err = "NoHeading"]
      ELSE IF Len(s.paragraphs) = 0 THEN [s EXCEPT !.err = "NoParagraphs"]
      ELSE [s EXCEPT !.paragraphs = <<Head(@)>>]

MutExtractNoParagraphsCheck(nodes) ==
  LET s == ScanNodes(nodes, 1, FALSE, <<>>)
  IN  IF s.err # NoErr THEN s
      ELSE IF ~s.heading THEN [s EXCEPT !.err = "NoHeading"]
      ELSE s

MutExtractNoHeadingCheck(nodes) ==
  LET s == ScanNodes(nodes, 1, FALSE, <<>>)
  IN  IF s.err # NoErr THEN s
      ELSE IF Len(s.paragraphs) = 0 THEN [s EXCEPT !.err = "NoParagraphs"]
      ELSE s

Extract(nodes) ==
  LET s == ScanNodes(nodes, 1, FALSE, <<>>)
  IN  IF s.err # NoErr THEN s
      ELSE IF ~s.heading THEN [s EXCEPT !.err = "NoHeading"]
      ELSE IF Len(s.paragraphs) = 0 THEN [s EXCEPT !.err = "NoParagraphs"]
      ELSE s

\* ------------------------------------------------------------- store file
NoFile == [exists |-> FALSE, table |-> FALSE, index |-> FALSE, rows |-> <<>>]

\* Number of rows of the posts table with the given name.
RECURSIVE CountRows(_, _)
CountRows(rows, name) ==
  IF rows = <<>> THEN 0
  ELSE (IF Head(rows).name = name THEN 1 ELSE 0) + CountRows(Tail(rows), name)

HasRow(rows, name) == \E i \in 1..Len(rows) : rows[i].name = name

\* First row with the name (QueryRow scans the first result row).
FirstRow(rows, name) ==
  rows[CHOOSE i \in 1..Len(rows) :
         rows[i].name = name /\ \A j \in 1..(i - 1) : rows[j].name # name]

\* os.Create(fp): creates the file, or truncates it when it exists.
MutOsCreateKeep(f) ==
  IF f.exists THEN f ELSE [exists |-> TRUE, table |-> FALSE, index |-> FALSE, rows |-> <<>>]

OsCreate(f) == [exists |-> TRUE, table |-> FALSE, index |-> FALSE, rows |-> <<>>]

\* CREATE TABLE IF NOT EXISTS posts (...)
CreateTable(f) == [file |-> [f EXCEPT !.table = TRUE], err |-> NoErr]

\* CREATE UNIQUE INDEX IF NOT EXISTS name_idx ON posts (name)
CreateIndex(f) ==
  IF ~f.table THEN [file |-> f, err |-> "NoTable"]
  ELSE IF f.index THEN [file |-> f, err |-> NoErr]
  ELSE IF \E n \in Posts : CountRows(f.rows, n) > 1 THEN [file |-> f, err |-> "Unique"]
  ELSE [file |-> [f EXCEPT !.index = TRUE], err |-> NoErr]

\* INSERT INTO posts ... RETURNING dt_posted, under the unique index.
MutInsertRowUpsert(f, name, day) ==
  IF ~f.table THEN [file |-> f, day |-> Nil, err |-> "NoTable"]
  ELSE [file |-> [f EXCEPT !.rows = Append(@, [name |-> name, day |-> day])],
        day |-> day, err |-> NoErr]

MutInsertRowReplace(f, name, day) ==
  IF ~f.table THEN [file |-> f, day |-> Nil, err |-> "NoTable"]
  ELSE IF HasRow(f.rows, name)
       THEN [file |-> [f EXCEPT !.rows = [i \in 1..Len(@) |->
                         IF @[i].name = name THEN [name |-> name, day |-> day] ELSE @[i]]],
             day |-> day, err |-> NoErr]
       ELSE [file |-> [f EXCEPT !.rows = Append(@, [name |-> name, day |-> day])],
             day |-> day, err |-> NoErr]

InsertRow(f, name, day) ==
  IF ~f.table THEN [file |-> f, day |-> Nil, err |-> "NoTable"]
  ELSE IF f.index /\ HasRow(f.rows, name) THEN [file |-> f, day |-> Nil, err |-> "Unique"]
  ELSE [file |-> [f EXCEPT !.rows = Append(@, [name |-> name, day |-> day])],
        day |-> day, err |-> NoErr]

\* sqliteRegistry.SetPublicationDate(p, t): t = Nil inserts the column default
\* CURRENT_DATE, otherwise t.Format(time.DateOnly); returns the scanned date.
MutSetPublicationDateKeepTime(f, name, t, clock) ==
  LET ins == InsertRow(f, name, IF t = Nil THEN UTCDay(clock) ELSE FormatDateOnly(t, 0))
  IN  IF ins.err # NoErr THEN [file |-> ins.file, date |-> Nil, err |-> ins.err]
      ELSE [file |-> ins.file, date |-> IF t = Nil THEN clock ELSE t, err |-> NoErr]

SetPublicationDate(f, name, t, clock) ==
  LET ins == InsertRow(f, name, IF t = Nil THEN UTCDay(clock) ELSE FormatDateOnly(t, 0))
  IN  IF ins.err # NoErr THEN [file |-> ins.file, date |-> Nil, err |-> ins.err]
      ELSE [file |-> ins.file, date |-> Midnight(ins.day), err |-> NoErr]

\* sqliteRegistry.GetPublicationDate(p): (nil, nil) on sql.ErrNoRows.
MutGetPublicationDateAbsent(f, name) ==
  IF ~f.table THEN [date |-> Nil, err |-> "NoTable"] ELSE [date |-> Nil, err |-> NoErr]

MutGetPublicationDateErrNoRows(f, name) ==
  IF ~f.table THEN [date |-> Nil, err |-> "NoTable"]
  ELSE IF ~HasRow(f.rows, name) THEN [date |-> Nil, err |-> "NoRows"]
  ELSE [date |-> Midnight(FirstRow(f.rows, name).day), err |-> NoErr]

GetPublicationDate(f, name) ==
  IF ~f.table THEN [date |-> Nil, err |-> "NoTable"]
  ELSE IF ~HasRow(f.rows, name) THEN [date |-> Nil, err |-> NoErr]
  ELSE [date |-> Midnight(FirstRow(f.rows, name).day), err |-> NoErr]

\* ------------------------------------------------------------- fragments
\* The bytes one successful WriteHtml writes: the template executed on the
\* post's heading and content and the formatted date.
Fragment(p, day) == <<[post |-> p, day |-> day]>>

\* ------------------------------------------------------------- templates
\* A template text is a sequence of blocks: the block of the default template,
\* which prints the post's heading and date, or "{{", an action that does not parse.
PostBlock == "{{.Heading}}{{.DtPosted}}"
TemplateTokens == {PostBlock, "{{"}
TemplateTexts == UNION {[1..n -> TemplateTokens] : n \in 1..MaxTemplateLen}

\* DefaultOptions.Template
DefaultTemplate == <<PostBlock>>

\* template.New("post").Parse(p.template) and tmpl.Execute return no error.
TemplateParses(text) == \A i \in 1..Len(text) : text[i] # "{{"

\* tmpl.Execute(&buf, p): every block replaced by the fields of the post it names.
TemplateExecute(text, p, day) == [i \in 1..Len(text) |-> [post |-> p, day |-> day]]

\* ------------------------------------------------------------- post options
\* The options of NewBlogPost, in the order they are passed.
OptString(s) == [kind |-> "WithTemplateString", s |-> s]
OptFile == [kind |-> "WithTemplateFile", s |-> <<>>]
OptTracking == [kind |-> "WithPublicationTracking", s |-> <<>>]

\* No post (a nil BlogPost) and no template file.
NoB == [FilePath |-> 0, template |-> <<>>, publicationTracking |-> FALSE]
NoTmplFile == [exists |-> FALSE, text |-> <<>>]
TmplFileOf(text) == [exists |-> TRUE, text |-> text]

\* WithTemplateString(s) applied to b.
WithTemplateString(b, s) == [b |-> [b EXCEPT !.template = s], err |-> NoErr]

\* WithTemplateFile(fp) applied to b, tf being the file fp.
MutWithTemplateFileKeepsDefault(b, tf) ==
  IF ~tf.exists THEN [b |-> b, err |-> "ReadFile"] ELSE [b |-> b, err |-> NoErr]

WithTemplateFile(b, tf) ==
  IF ~tf.exists THEN [b |-> b, err |-> "ReadFile"]
  ELSE [b |-> [b EXCEPT !.template = tf.text], err |-> NoErr]

\* WithPublicationTracking() applied to b.
WithPublicationTracking(b) == [b |-> [b EXCEPT !.publicationTracking = TRUE], err |-> NoErr]

ApplyOption(b, o, tf) ==
  IF o.kind = "WithTemplateString" THEN WithTemplateString(b, o.s)
  ELSE IF o.kind = "WithTemplateFile" THEN WithTemplateFile(b, tf)
  ELSE WithPublicationTracking(b)

\* The option loop of NewBlogPost from option i on: the first error ends it.
RECURSIVE ApplyOptions(_, _, _, _)
ApplyOptions(b, options, i, tf) ==
  IF i > Len(options) THEN [b |-> b, err |-> NoErr]
  ELSE LET r == ApplyOption(b, options[i], tf)
       IN  IF r.err # NoErr THEN [b |-> NoB, err |-> r.err]
           ELSE ApplyOptions(r.b, options, i + 1, tf)

\* NewBlogPost(fp, options...); exists: os.Stat(fp) finds the file.
NewBlogPost(fp, exists, options, tf) ==
  IF ~exists THEN [b |-> NoB, err |-> "NotExist"]
  ELSE ApplyOptions([FilePath |-> fp, template |-> DefaultTemplate,
                     publicationTracking |-> FALSE], options, 1, tf)

\* The part of WriteHtml that depends on the post's template, for a post
\* without publication tracking rendered on the given day: extraction, then
\* the template parsed, executed and written.
WriteHtmlWith(b, nodes, day) ==
  LET e == Extract(nodes)
  IN  IF e.err # NoErr THEN [out |-> <<>>, err |-> e.err]
      ELSE IF ~TemplateParses(b.template) THEN [out |-> <<>>, err |-> "Template"]
      ELSE [out |-> TemplateExecute(b.template, b.FilePath, day), err |-> NoErr]

\* ------------------------------------------------------------- blog directory
\* Directory entries are regular files named <base>.md or <base>.txt.
DirEntries == [base : Posts, md : BOOLEAN]
BlogDirs == {[kind |-> "missing", entries |-> {}], [kind |-> "file", entries |-> {}]}
              \cup {[kind |-> "dir", entries |-> es] : es \in SUBSET DirEntries}

\* The elements of a set of numbers in ascending order.
RECURSIVE SortedSeq(_)
SortedSeq(S) ==
  IF S = {} THEN <<>>
  ELSE LET m == CHOOSE x \in S : \A y \in S : x <= y
       IN  <<m>> \o SortedSeq(S \ {m})

\* filepath.Glob(filepath.Join(directory, "*.md")): the matching names, sorted.
MutGlobAnyFile(d) == SortedSeq({e.base : e \in d.entries})

Glob(d) == SortedSeq({e.base : e \in {x \in d.entries : x.md}})

\* The loop of NewBlog over markdownFiles from index i on.
RECURSIVE NewBlogPosts(_, _, _, _, _)
NewBlogPosts(markdownFiles, i, blogPosts, options, tf) ==
  IF i > Len(markdownFiles) THEN [posts |-> blogPosts, err |-> NoErr]
  ELSE LET r == NewBlogPost(markdownFiles[i], TRUE, options, tf)
       IN  IF r.err # NoErr THEN [posts |-> <<>>, err |-> r.err]
           ELSE NewBlogPosts(markdownFiles, i + 1, Append(blogPosts, r.b), options, tf)

\* NewBlog(directory, postOptions...): the posts of the Blog (none when it returns
\* nil) and the error.
NewBlog(d, options, tf) ==
  LET markdownFiles == Glob(d)
  IN  IF d.kind = "missing" THEN [posts |-> <<>>, err |-> "NotExist"]
      ELSE IF d.kind # "dir" THEN [posts |-> <<>>, err |-> "NotDir"]
      ELSE IF Len(markdownFiles) = 0 THEN [posts |-> <<>>, err |-> "NoMarkdown"]
      ELSE NewBlogPosts(markdownFiles, 1, <<>>, options, tf)

\* ------------------------------------------------------------- build directories
\* Files of the source directory: the page template, a stylesheet, a second template.
IndexTmpl == [base |-> "index", suffix |-> ".html.tmpl"]
IndexCss == [base |-> "index", suffix |-> ".css"]
ExtraTmpl == [base |-> "extra", suffix |-> ".html.tmpl"]
IndexHtml == [base |-> "index", suffix |-> ".html"]
SrcNames == {IndexTmpl, IndexCss, ExtraTmpl}
SrcDirs == {[kind |-> "missing", files |-> {}], [kind |-> "file", files |-> {}]}
             \cup {[kind |-> "dir", files |-> fs] : fs \in SUBSET SrcNames}

\* strings.HasSuffix(f.Name(), ".tmpl")
HasSuffixTmpl(name) == name.suffix = ".html.tmpl"

\* What a file of the output directory holds: bytes from before any build, a
\* hard link to the file of the source directory, or the page build wrote.
OldBytes == [kind |-> "old", html |-> <<>>]
HardLink == [kind |-> "link", html |-> <<>>]
Page(html) == [kind |-> "page", html |-> html]

\* The files overwriteDirectoryContents links into dst: all but the templates.
Links(src) == {[name |-> n, content |-> HardLink] : n \in {f \in src.files : ~HasSuffixTmpl(f)}}

\* overwriteDirectoryContents(src, dst, force): dst afterwards and the error.
MutOverwriteAlways(src, dst, force) ==
  IF src.kind = "missing" THEN [dst |-> dst, err |-> "SrcStat"]
  ELSE IF src.kind # "dir" THEN [dst |-> dst, err |-> "SrcNotDir"]
  ELSE [dst |-> [exists |-> TRUE, files |-> Links(src)], err |-> NoErr]

overwriteDirectoryContents(src, dst, force) ==
  LET dstContents == IF dst.exists THEN dst.files ELSE {}
  IN  IF src.kind = "missing" THEN [dst |-> dst, err |-> "SrcStat"]
      ELSE IF src.kind # "dir" THEN [dst |-> dst, err |-> "SrcNotDir"]
      ELSE IF dstContents # {} /\ ~force THEN [dst |-> dst, err |-> "NotEmpty"]
      ELSE [dst |-> [exists |-> TRUE, files |-> Links(src)], err |-> NoErr]

\* ------------------------------------------------------------- state
VARIABLES
  file,      \* <directory>/blog.sqlite: [exists, table, index, rows]; survives the process
  pool,      \* sqlitePool's entry for the directory: a handle, or Nil
  hctr,      \* *sqliteRegistry objects allocated by this process
  now,       \* the clock, in ticks
  tz,        \* offset of the process's local zone from UTC, in ticks
  run,       \* number of the current process run
  tracking,  \* DefaultOptions.EnablePublicationTracking || p.publicationTracking
  docs,      \* post -> top-level nodes of its parsed Markdown file
  tmplOk,    \* whether the posts' template parses and executes
  htmlRenderer, \* the package variable htmlRenderer: Nil, or a renderer
  sawNil,    \* task -> it has read htmlRenderer == nil and not yet assigned it
  blogDir,   \* the blog directory: [kind, entries]
  blog,      \* what the last NewBlog returned, and the directory it saw
  tmplFile,  \* the post template file: its text, or Nil when there is no such file
  built,     \* what NewBlogPost returned with WithTemplateString (s) and WithTemplateFile (f)
  rendered,  \* what WriteHtml of these two posts returned
  srcDir,    \* build's source directory: [kind, files]
  outDir,    \* build's output directory: [exists, files]
  bld,       \* the running build: its position, options, locals and error
  pc,        \* task -> position in WriteHtml
  post,      \* task -> the post it renders
  handle,    \* task -> the registry Acquire gave it (local variable backend)
  dt,        \* task -> dtPosted
  out,       \* task -> bytes written to its writer
  err,       \* task -> error WriteHtml returned
  batch,     \* "none", "seq" (in RenderPosts), "async" (in RenderPostsAsync), "returned"
  htmlBuffer,\* RenderPosts's buffer, the writer of its WriteHtml calls
  bufSlice,  \* RenderPostsAsync's result slots
  gErr,      \* the errgroup's first error
  result,    \* what the last RenderPosts / RenderPostsAsync returned
  snap,      \* the store, pool and clock when the running collection render started
  calls,     \* registry harness: the direct Get/Set calls made and what they returned
  inits,     \* history: os.Create calls of createSqliteRegistry in this process run
  stamp,     \* history: post -> day and run of the first entry ever stored for it
  last       \* history: post -> day the latest WriteHtml call that returned rendered, or Nil

envVars == <<blogDir, blog, tmplFile, built, rendered, srcDir, outDir, bld>>
cfgVars == <<tz, tracking, docs, tmplOk, htmlRenderer, sawNil, envVars>>
storeVars == <<file, pool, hctr, inits, stamp>>
taskVars == <<pc, post, handle, dt, out, err>>
batchVars == <<batch, htmlBuffer, bufSlice, gErr, result, snap>>
vars == <<file, pool, hctr, now, tz, run, tracking, docs, tmplOk, htmlRenderer, sawNil, blogDir,
          blog, tmplFile, built, rendered, srcDir, outDir, bld, pc, post, handle,
          dt, out, err, batch, htmlBuffer, bufSlice, gErr, result, snap, calls, inits,
          stamp, last>>

\* Documents the posts are drawn from: a well-formed post and one without heading.
DocChoices == {<<"H", "P">>, <<"P">>}
TZOffsets == {0, 1}

NoStamp == [day |-> Nil, run |-> 0]
NoBatchErr == [post |-> 0, cause |-> NoErr]
NoResult == [mode |-> "none", out |-> <<>>, err |-> NoBatchErr]
NoSnap == [w |-> [file |-> NoFile, pool |-> Nil, hctr |-> 0, inits |-> 0,
                  stamp |-> [p \in Posts |-> NoStamp]], now |-> 0]

\* ------------------------------------------------------------- environment state
NoDir == [kind |-> "missing", entries |-> {}]
NoOutDir == [exists |-> FALSE, files |-> {}]
NoBlog == [posts |-> <<>>, err |-> NoErr, dir |-> NoDir, called |-> FALSE]
NoPost == [b |-> NoB, err |-> "none", text |-> NoTmplFile]
NoBuilt == [s |-> NoPost, f |-> NoPost]
NoRender == [out |-> <<>>, err |-> "none"]
NoRendered == [s |-> NoRender, f |-> NoRender]
NoBuild == [pc |-> "idle", force |-> FALSE, postTemplateFile |-> FALSE, err |-> NoErr,
            html |-> <<>>, out0 |-> NoOutDir, file0 |-> NoFile]
PostsDir == [kind |-> "dir", entries |-> {[base |-> p, md |-> TRUE] : p \in Posts}]
SiteDir == [kind |-> "dir", files |-> {IndexTmpl, IndexCss}]

\* The library is used on a directory with one Markdown file per post; nothing
\* is built from template files and no build command runs.
EnvInit ==
  /\ blogDir = PostsDir
  /\ blog = NoBlog
  /\ tmplFile = NoTmplFile
  /\ built = NoBuilt
  /\ rendered = NoRendered
  /\ srcDir = SiteDir
  /\ outDir = NoOutDir
  /\ bld = NoBuild

TasksIdle ==
  /\ pc = [t \in Tasks |-> "idle"]
  /\ post = [t \in Tasks |-> 0]
  /\ handle = [t \in Tasks |-> Nil]
  /\ dt = [t \in Tasks |-> Nil]
  /\ out = [t \in Tasks |-> <<>>]
  /\ err = [t \in Tasks |-> NoErr]

\* A directory of posts that was never built: no store file, an empty pool.
Init ==
  /\ file = NoFile
  /\ pool = Nil
  /\ hctr = 0
  /\ now = TicksPerDay
  /\ tz \in TZOffsets
  /\ run = 1
  /\ tracking \in BOOLEAN
  /\ docs \in [Posts -> DocChoices]
  /\ tmplOk \in BOOLEAN
  /\ htmlRenderer = Nil
  /\ sawNil = [t \in Tasks |-> FALSE]
  /\ EnvInit
  /\ TasksIdle
  /\ batch = "none"
  /\ htmlBuffer = <<>>
  /\ bufSlice = [i \in Posts |-> <<>>]
  /\ gErr = NoErr
  /\ result = NoResult
  /\ snap = NoSnap
  /\ calls = <<>>
  /\ inits = 0
  /\ stamp = [p \in Posts |-> NoStamp]
  /\ last = [p \in Posts |-> Nil]

\* ------------------------------------------------------------- registry pool
\* pool.Load(directory): the installed handle, or Nil when there is none.
MutPoolLoadMiss(pl) == Nil

PoolLoad(pl) == pl

\* pool.LoadOrStore(directory, registry): installs only when nothing is installed.
MutLoadOrStoreReplace(pl, h) == h

LoadOrStore(pl, h) == IF pl = Nil THEN h ELSE pl

\* ------------------------------------------------------------- history
\* Records the day and the run of the first entry ever stored for post p.
Stamped(st, p, day, r) ==
  IF st[p].day = Nil THEN [st EXCEPT ![p] = [day |-> day, run |-> r]] ELSE st

\* ------------------------------------------------------------- sequential code
\* What one goroutine running alone does, as a function of the shared state w.
World == [file |-> file, pool |-> pool, hctr |-> hctr, inits |-> inits, stamp |-> stamp]

\* sqlitePool.Acquire with createSqliteRegistry, run without interruption.
AcquireOp(w) ==
  IF PoolLoad(w.pool) # Nil THEN [w |-> w, handle |-> PoolLoad(w.pool), err |-> NoErr]
  ELSE LET f1 == OsCreate(w.file)
           t1 == CreateTable(f1)
           i1 == CreateIndex(t1.file)
           w1 == [w EXCEPT !.file = i1.file, !.inits = @ + 1]
       IN  IF i1.err # NoErr THEN [w |-> w1, handle |-> Nil, err |-> i1.err]
           ELSE [w |-> [w1 EXCEPT !.hctr = @ + 1, !.pool = LoadOrStore(@, w.hctr + 1)],
                 handle |-> w.hctr + 1, err |-> NoErr]

\* The publication-tracking branch of WriteHtml: Acquire, get, set when absent.
ResolveDate(w, p, clock) ==
  LET a == AcquireOp(w)
      g == GetPublicationDate(a.w.file, p)
      s == SetPublicationDate(a.w.file, p, Nil, clock)
  IN  IF a.err # NoErr THEN [w |-> a.w, date |-> Nil, err |-> a.err]
      ELSE IF g.err # NoErr THEN [w |-> a.w, date |-> Nil, err |-> g.err]
      ELSE IF g.date # Nil THEN [w |-> a.w, date |-> g.date, err |-> NoErr]
      ELSE IF s.err # NoErr THEN [w |-> a.w, date |-> Nil, err |-> s.err]
      ELSE [w |-> [a.w EXCEPT !.file = s.file,
                              !.stamp = Stamped(@, p, UTCDay(s.date), run)],
            date |-> s.date, err |-> NoErr]

\* blogPost.WriteHtml, run without interruption at instant clock.
WriteHtmlOp(w, p, clock) ==
  LET e == Extract(docs[p])
      r == IF tracking THEN ResolveDate(w, p, clock)
           ELSE [w |-> w, date |-> clock, err |-> NoErr]
      day == FormatDateOnly(r.date, IF tracking THEN 0 ELSE tz)
  IN  IF e.err # NoErr THEN [w |-> w, out |-> <<>>, err |-> e.err]
      ELSE IF r.err # NoErr THEN [w |-> r.w, out |-> <<>>, err |-> r.err]
      ELSE IF ~tmplOk THEN [w |-> r.w, out |-> <<>>, err |-> "Template"]
      ELSE [w |-> r.w, out |-> Fragment(p, day), err |-> NoErr]

\* The loop of blog.RenderPosts from post i on, htmlBuffer holding buf.
RECURSIVE RenderFrom(_, _, _, _)
RenderFrom(w, i, buf, clock) ==
  IF i > NumPosts THEN [w |-> w, out |-> buf, err |-> NoBatchErr]
  ELSE LET r == WriteHtmlOp(w, i, clock)
       IN  IF r.err # NoErr
           THEN [w |-> r.w, out |-> <<>>, err |-> [post |-> i, cause |-> r.err]]
           ELSE RenderFrom(r.w, i + 1, buf \o r.out, clock)

\* blog.RenderPosts
RenderPostsOp(w, clock) == RenderFrom(w, 1, <<>>, clock)

\* ------------------------------------------------------------- WriteHtml, stepwise
\* WriteHtml of task t returns the error e; inside an errgroup the first error is kept.
Fail(t, e) ==
  /\ pc' = [pc EXCEPT ![t] = "failed"]
  /\ err' = [err EXCEPT ![t] = e]
  /\ gErr' = IF batch = "async" /\ gErr = NoErr THEN e ELSE gErr

\* html.NewRenderer(opts): every call builds a renderer with the same options, so
\* the renderers are interchangeable and one value stands for them.
Renderer == 1

\* WriteHtml reads the package variable: `if htmlRenderer == nil` is true.
RendererCheck(t) ==
  /\ pc[t] = "begin"
  /\ htmlRenderer = Nil /\ ~sawNil[t]
  /\ sawNil' = [sawNil EXCEPT ![t] = TRUE]
  /\ UNCHANGED <<storeVars, tz, tracking, docs, tmplOk, htmlRenderer, envVars, now, run, taskVars,
                 batchVars, calls, last>>

\* WriteHtml assigns the package variable: htmlRenderer = html.NewRenderer(opts).
NewRenderer(t) ==
  /\ pc[t] = "begin"
  /\ sawNil[t]
  /\ htmlRenderer' = Renderer
  /\ sawNil' = [sawNil EXCEPT ![t] = FALSE]
  /\ UNCHANGED <<storeVars, tz, tracking, docs, tmplOk, envVars, now, run, taskVars, batchVars,
                 calls, last>>

\* Reads and parses the file, extracts heading and paragraphs with the renderer
\* in htmlRenderer; without tracking the date is time.Now().
MutBeginAlwaysTrack(t) ==
  /\ pc[t] = "begin"
  /\ htmlRenderer # Nil /\ ~sawNil[t]
  /\ LET e == Extract(docs[post[t]])
     IN  IF e.err # NoErr
         THEN Fail(t, e.err) /\ UNCHANGED dt
         ELSE /\ pc' = [pc EXCEPT ![t] = "load"]
              /\ dt' = [dt EXCEPT ![t] = Nil]
              /\ UNCHANGED <<err, gErr>>
  /\ UNCHANGED <<storeVars, cfgVars, now, run, post, handle, out, batch, htmlBuffer,
                 bufSlice, result, snap, calls, last>>

\* WriteHtml with the registry acquired before the document is validated.
MutBeginAcquireFirst(t) ==
  /\ pc[t] = "begin"
  /\ htmlRenderer # Nil /\ ~sawNil[t]
  /\ LET e == Extract(docs[post[t]])
         a == IF tracking THEN AcquireOp(World)
              ELSE [w |-> World, handle |-> Nil, err |-> NoErr]
     IN  /\ file' = a.w.file /\ pool' = a.w.pool /\ hctr' = a.w.hctr
         /\ inits' = a.w.inits /\ stamp' = a.w.stamp
         /\ handle' = [handle EXCEPT ![t] = a.handle]
         /\ IF e.err # NoErr
            THEN Fail(t, e.err) /\ UNCHANGED dt
            ELSE IF a.err # NoErr
                 THEN Fail(t, a.err) /\ UNCHANGED dt
                 ELSE /\ pc' = [pc EXCEPT ![t] = IF tracking THEN "get" ELSE "tmpl"]
                      /\ dt' = [dt EXCEPT ![t] = IF tracking THEN Nil ELSE now]
                      /\ UNCHANGED <<err, gErr>>
  /\ UNCHANGED <<cfgVars, now, run, post, out, batch, htmlBuffer, bufSlice, result, snap,
                 calls, last>>

Begin(t) ==
  /\ pc[t] = "begin"
  /\ htmlRenderer # Nil /\ ~sawNil[t]
  /\ LET e == Extract(docs[post[t]])
     IN  IF e.err # NoErr
         THEN Fail(t, e.err) /\ UNCHANGED dt
         ELSE /\ pc' = [pc EXCEPT ![t] = IF tracking THEN "load" ELSE "tmpl"]
              /\ dt' = [dt EXCEPT ![t] = IF tracking THEN Nil ELSE now]
              /\ UNCHANGED <<err, gErr>>
  /\ UNCHANGED <<storeVars, cfgVars, now, run, post, handle, out, batch, htmlBuffer,
                 bufSlice, result, snap, calls, last>>

\* Acquire: pool.Load finds the handle.
LoadHit(t) ==
  /\ pc[t] = "load"
  /\ PoolLoad(pool) # Nil
  /\ handle' = [handle EXCEPT ![t] = PoolLoad(pool)]
  /\ pc' = [pc EXCEPT ![t] = "get"]
  /\ UNCHANGED <<storeVars, cfgVars, now, run, post, dt, out, err, batchVars, calls, last>>

\* Acquire: pool.Load finds nothing, createSqliteRegistry is called.
LoadMiss(t) ==
  /\ pc[t] = "load"
  /\ PoolLoad(pool) = Nil
  /\ pc' = [pc EXCEPT ![t] = "create"]
  /\ UNCHANGED <<storeVars, cfgVars, now, run, post, handle, dt, out, err, batchVars,
                 calls, last>>

\* createSqliteRegistry: os.Create(fp); sql.Open connects lazily.
Create(t) ==
  /\ pc[t] = "create"
  /\ file' = OsCreate(file)
  /\ inits' = inits + 1
  /\ pc' = [pc EXCEPT ![t] = "table"]
  /\ UNCHANGED <<pool, hctr, stamp, cfgVars, now, run, post, handle, dt, out, err,
                 batchVars, calls, last>>

\* createSqliteRegistry: db.Exec, first statement.
ExecTable(t) ==
  /\ pc[t] = "table"
  /\ file' = CreateTable(file).file
  /\ pc' = [pc EXCEPT ![t] = "index"]
  /\ UNCHANGED <<pool, hctr, inits, stamp, cfgVars, now, run, post, handle, dt, out, err,
                 batchVars, calls, last>>

\* createSqliteRegistry: db.Exec, second statement, and the new *sqliteRegistry.
ExecIndex(t) ==
  /\ pc[t] = "index"
  /\ LET r == CreateIndex(file)
     IN  IF r.err # NoErr
         THEN Fail(t, r.err) /\ UNCHANGED <<file, hctr, handle>>
         ELSE /\ file' = r.file
              /\ hctr' = hctr + 1
              /\ handle' = [handle EXCEPT ![t] = hctr + 1]
              /\ pc' = [pc EXCEPT ![t] = "store"]
              /\ UNCHANGED <<err, gErr>>
  /\ UNCHANGED <<pool, inits, stamp, cfgVars, now, run, post, dt, out, batch, htmlBuffer,
                 bufSlice, result, snap, calls, last>>

\* Acquire: pool.LoadOrStore(directory, registry); returns the registry it created.
Store(t) ==
  /\ pc[t] = "store"
  /\ pool' = LoadOrStore(pool, handle[t])
  /\ pc' = [pc EXCEPT ![t] = "get"]
  /\ UNCHANGED <<file, hctr, inits, stamp, cfgVars, now, run, post, handle, dt, out, err,
                 batchVars, calls, last>>

\* backend.GetPublicationDate(p)
Get(t) ==
  /\ pc[t] = "get"
  /\ LET g == GetPublicationDate(file, post[t])
     IN  IF g.err # NoErr
         THEN Fail(t, g.err) /\ UNCHANGED dt
         ELSE /\ pc' = [pc EXCEPT ![t] = IF g.date = Nil THEN "set" ELSE "tmpl"]
              /\ dt' = [dt EXCEPT ![t] = g.date]
              /\ UNCHANGED <<err, gErr>>
  /\ UNCHANGED <<storeVars, cfgVars, now, run, post, handle, out, batch, htmlBuffer,
                 bufSlice, result, snap, calls, last>>

\* backend.SetPublicationDate(p, nil)
Set(t) ==
  /\ pc[t] = "set"
  /\ LET s == SetPublicationDate(file, post[t], Nil, now)
     IN  IF s.err # NoErr
         THEN Fail(t, s.err) /\ UNCHANGED <<file, stamp, dt>>
         ELSE /\ file' = s.file
              /\ stamp' = Stamped(stamp, post[t], UTCDay(s.date), run)
              /\ dt' = [dt EXCEPT ![t] = s.date]
              /\ pc' = [pc EXCEPT ![t] = "tmpl"]
              /\ UNCHANGED <<err, gErr>>
  /\ UNCHANGED <<pool, hctr, inits, cfgVars, now, run, post, handle, out, batch, htmlBuffer,
                 bufSlice, result, snap, calls, last>>

\* Formats the date, parses and executes the template, writes the bytes to the
\* writer (RenderPosts passes its htmlBuffer); in RenderPostsAsync the goroutine
\* then stores the bytes of its own buffer in its slot.
MutTemplateExecuteToWriter(t) ==
  /\ pc[t] = "tmpl"
  /\ IF ~tmplOk
     THEN /\ Fail(t, "Template")
          /\ out' = [out EXCEPT ![t] = <<[post |-> post[t], day |-> Nil]>>]
          /\ UNCHANGED <<htmlBuffer, bufSlice>>
     ELSE LET day == FormatDateOnly(dt[t], IF tracking THEN 0 ELSE tz)
          IN  /\ out' = [out EXCEPT ![t] = Fragment(post[t], day)]
              /\ htmlBuffer' = IF batch = "seq"
                               THEN htmlBuffer \o Fragment(post[t], day)
                               ELSE htmlBuffer
              /\ bufSlice' = IF batch = "async"
                             THEN [bufSlice EXCEPT ![post[t]] = Fragment(post[t], day)]
                             ELSE bufSlice
              /\ pc' = [pc EXCEPT ![t] = "done"]
              /\ UNCHANGED <<err, gErr>>
  /\ UNCHANGED <<storeVars, cfgVars, now, run, post, handle, dt, batch, result, snap, calls,
                 last>>

Template(t) ==
  /\ pc[t] = "tmpl"
  /\ IF ~tmplOk
     THEN Fail(t, "Template") /\ UNCHANGED <<out, htmlBuffer, bufSlice>>
     ELSE LET day == FormatDateOnly(dt[t], IF tracking THEN 0 ELSE tz)
          IN  /\ out' = [out EXCEPT ![t] = Fragment(post[t], day)]
              /\ htmlBuffer' = IF batch = "seq"
                               THEN htmlBuffer \o Fragment(post[t], day)
                               ELSE htmlBuffer
              /\ bufSlice' = IF batch = "async"
                             THEN [bufSlice EXCEPT ![post[t]] = Fragment(post[t], day)]
                             ELSE bufSlice
              /\ pc' = [pc EXCEPT ![t] = "done"]
              /\ UNCHANGED <<err, gErr>>
  /\ UNCHANGED <<storeVars, cfgVars, now, run, post, handle, dt, batch, result, snap, calls,
                 last>>

\* ------------------------------------------------------------- callers
AllIdle == \A t \in Tasks : pc[t] = "idle"
Finished(t) == pc[t] \in {"done", "failed"}

\* A goroutine of the library's user calls post.WriteHtml(&buf).
CallWriteHtml(t, p) ==
  /\ batch = "none"
  /\ pc[t] = "idle"
  /\ pc' = [pc EXCEPT ![t] = "begin"]
  /\ post' = [post EXCEPT ![t] = p]
  /\ UNCHANGED <<storeVars, cfgVars, now, run, handle, dt, out, err, batchVars, calls, last>>

\* The caller has read the outcome of its WriteHtml call.
Return(t) ==
  /\ batch = "none"
  /\ Finished(t)
  /\ pc' = [pc EXCEPT ![t] = "idle"]
  /\ post' = [post EXCEPT ![t] = 0]
  /\ handle' = [handle EXCEPT ![t] = Nil]
  /\ dt' = [dt EXCEPT ![t] = Nil]
  /\ out' = [out EXCEPT ![t] = <<>>]
  /\ err' = [err EXCEPT ![t] = NoErr]
  /\ last' = IF pc[t] = "done" THEN [last EXCEPT ![post[t]] = out[t][1].day] ELSE last
  /\ UNCHANGED <<storeVars, cfgVars, now, run, batchVars, calls>>

\* blog.RenderPosts is called: the calling goroutine (task 1) enters the loop.
RenderPostsCall ==
  /\ batch = "none"
  /\ AllIdle
  /\ batch' = "seq"
  /\ htmlBuffer' = <<>>
  /\ pc' = [pc EXCEPT ![1] = "begin"]
  /\ post' = [post EXCEPT ![1] = 1]
  /\ snap' = [w |-> World, now |-> now]
  /\ UNCHANGED <<storeVars, cfgVars, now, run, handle, dt, out, err, bufSlice, gErr,
                 result, calls, last>>

\* blog.RenderPosts: WriteHtml returned nil, the loop goes on to the next post.
MutRenderPostsLoopOnError ==
  /\ batch = "seq"
  /\ pc[1] \in {"done", "failed"}
  /\ post[1] < NumPosts
  /\ pc' = [pc EXCEPT ![1] = "begin"]
  /\ post' = [post EXCEPT ![1] = @ + 1]
  /\ handle' = [handle EXCEPT ![1] = Nil]
  /\ dt' = [dt EXCEPT ![1] = Nil]
  /\ out' = [out EXCEPT ![1] = <<>>]
  /\ UNCHANGED <<storeVars, cfgVars, now, run, err, batchVars, calls, last>>

MutRenderPostsLoopFreshBuffer ==
  /\ batch = "seq"
  /\ pc[1] = "done"
  /\ post[1] < NumPosts
  /\ pc' = [pc EXCEPT ![1] = "begin"]
  /\ post' = [post EXCEPT ![1] = @ + 1]
  /\ handle' = [handle EXCEPT ![1] = Nil]
  /\ dt' = [dt EXCEPT ![1] = Nil]
  /\ out' = [out EXCEPT ![1] = <<>>]
  /\ htmlBuffer' = <<>>
  /\ UNCHANGED <<storeVars, cfgVars, now, run, err, batch, bufSlice, gErr, result, snap,
                 calls, last>>

RenderPostsLoop ==
  /\ batch = "seq"
  /\ pc[1] = "done"
  /\ post[1] < NumPosts
  /\ pc' = [pc EXCEPT ![1] = "begin"]
  /\ post' = [post EXCEPT ![1] = @ + 1]
  /\ handle' = [handle EXCEPT ![1] = Nil]
  /\ dt' = [dt EXCEPT ![1] = Nil]
  /\ out' = [out EXCEPT ![1] = <<>>]
  /\ UNCHANGED <<storeVars, cfgVars, now, run, err, batchVars, calls, last>>

\* blog.RenderPosts returns: at the first error, or after the last post.
RenderPostsReturn ==
  /\ batch = "seq"
  /\ \/ pc[1] = "failed"
     \/ pc[1] = "done" /\ post[1] = NumPosts
  /\ batch' = "returned"
  /\ result' = IF pc[1] = "failed"
               THEN [mode |-> "seq", out |-> <<>>, err |-> [post |-> post[1], cause |-> err[1]]]
               ELSE [mode |-> "seq", out |-> htmlBuffer, err |-> NoBatchErr]
  /\ UNCHANGED <<storeVars, cfgVars, now, run, taskVars, htmlBuffer, bufSlice, gErr, snap,
                 calls, last>>

\* The (i, p) the closure of iteration i captures (per-iteration loop variables).
MutLoopVarShared(i) == NumPosts

LoopVar(i) == i

\* The slots in index order, written to one buffer.
RECURSIVE CollectFrom(_, _)
CollectFrom(slots, i) ==
  IF i > NumPosts THEN <<>> ELSE slots[i] \o CollectFrom(slots, i + 1)

\* blog.RenderPostsAsync up to g.Wait: one goroutine per post.
RenderPostsAsyncGo ==
  /\ batch = "none"
  /\ AllIdle
  /\ batch' = "async"
  /\ bufSlice' = [i \in Posts |-> <<>>]
  /\ gErr' = NoErr
  /\ pc' = [t \in Tasks |-> "begin"]
  /\ post' = [t \in Tasks |-> LoopVar(t)]
  /\ snap' = [w |-> World, now |-> now]
  /\ UNCHANGED <<storeVars, cfgVars, now, run, handle, dt, out, err, htmlBuffer, result,
                 calls, last>>

\* blog.RenderPostsAsync from g.Wait on.
MutRenderPostsAsyncWaitFirstError ==
  /\ batch = "async"
  /\ gErr # NoErr \/ \A t \in Tasks : Finished(t)
  /\ batch' = "returned"
  /\ result' = IF gErr # NoErr
               THEN [mode |-> "async", out |-> <<>>, err |-> NoBatchErr]
               ELSE [mode |-> "async", out |-> CollectFrom(bufSlice, 1), err |-> NoBatchErr]
  /\ UNCHANGED <<storeVars, cfgVars, now, run, taskVars, htmlBuffer, bufSlice, gErr, snap,
                 calls, last>>

RenderPostsAsyncWait ==
  /\ batch = "async"
  /\ \A t \in Tasks : Finished(t)
  /\ batch' = "returned"
  /\ result' = IF gErr # NoErr
               THEN [mode |-> "async", out |-> <<>>, err |-> NoBatchErr]
               ELSE [mode |-> "async", out |-> CollectFrom(bufSlice, 1), err |-> NoBatchErr]
  /\ UNCHANGED <<storeVars, cfgVars, now, run, taskVars, htmlBuffer, bufSlice, gErr, snap,
                 calls, last>>

\* The caller has read what RenderPosts or RenderPostsAsync returned; the
\* goroutines and the locals of the call are gone.
Returned ==
  /\ batch = "returned"
  /\ batch' = "none"
  /\ pc' = [t \in Tasks |-> "idle"]
  /\ post' = [t \in Tasks |-> 0]
  /\ handle' = [t \in Tasks |-> Nil]
  /\ dt' = [t \in Tasks |-> Nil]
  /\ out' = [t \in Tasks |-> <<>>]
  /\ err' = [t \in Tasks |-> NoErr]
  /\ htmlBuffer' = <<>>
  /\ bufSlice' = [i \in Posts |-> <<>>]
  /\ gErr' = NoErr
  /\ result' = NoResult
  /\ snap' = NoSnap
  /\ UNCHANGED <<storeVars, cfgVars, now, run, calls, last>>

\* ------------------------------------------------------------- environment
\* Time passes.
Tick ==
  /\ now < MaxNow
  /\ now' = now + 1
  /\ UNCHANGED <<storeVars, cfgVars, run, taskVars, batchVars, calls, last>>

\* The process exits and a new one starts on the same directory: the pool and
\* the goroutines are gone, the store file stays.
NewProcess ==
  /\ run < MaxRuns
  /\ batch = "none"
  /\ AllIdle
  /\ run' = run + 1
  /\ pool' = Nil
  /\ hctr' = 0
  /\ inits' = 0
  /\ htmlRenderer' = Nil
  /\ UNCHANGED <<file, stamp, tz, tracking, docs, tmplOk, sawNil, envVars, now, taskVars, batchVars,
                 calls, last>>

Step(t) ==
  \/ RendererCheck(t) \/ NewRenderer(t)
  \/ Begin(t) \/ LoadHit(t) \/ LoadMiss(t) \/ Create(t) \/ ExecTable(t) \/ ExecIndex(t)
  \/ Store(t) \/ Get(t) \/ Set(t) \/ Template(t)

\* Builds of one directory: process runs that render the collection with
\* RenderPosts or RenderPostsAsync.
Next ==
  \/ \E t \in Tasks : Step(t)
  \/ RenderPostsCall
  \/ RenderPostsLoop
  \/ RenderPostsReturn
  \/ RenderPostsAsyncGo
  \/ RenderPostsAsyncWait
  \/ Returned
  \/ Tick
  \/ NewProcess

Spec == Init /\ [][Next]_vars

\* One process that renders a fresh directory with RenderPostsAsync, repeatedly.
NextAsync ==
  \/ \E t \in Tasks : Step(t)
  \/ RenderPostsAsyncGo
  \/ RenderPostsAsyncWait
  \/ Returned
  \/ Tick

SpecAsync == Init /\ [][NextAsync]_vars

\* One process in which one goroutine calls WriteHtml on posts of a fresh
\* directory, one call after the other.
NextSeq ==
  \/ Step(1)
  \/ \E p \in Posts : CallWriteHtml(1, p)
  \/ Return(1)
  \/ Tick

SpecSeq == Init /\ [][NextSeq]_vars

\* One process in which goroutines of the library's user call WriteHtml on
\* posts of a fresh directory concurrently, also on the same post; each
\* goroutine makes one call, at any time.
\* The goroutines that call WriteHtml concurrently: two callers.
Goroutines == {t \in Tasks : t <= 2}

NextConcurrent ==
  \/ \E t \in Goroutines : Step(t)
  \/ \E t \in Goroutines, p \in Posts : CallWriteHtml(t, p)
  \/ Tick

SpecConcurrent == Init /\ [][NextConcurrent]_vars

\* Extraction harness: the document of the first post is any sequence of at
\* most MaxNodes top-level nodes, the other posts are well-formed; one goroutine
\* calls WriteHtml on them, one call after the other.
Documents == UNION {[1..n -> BlockKinds] : n \in 0..MaxNodes}

InitExtract ==
  /\ file = NoFile
  /\ pool = Nil
  /\ hctr = 0
  /\ now = TicksPerDay
  /\ tz \in TZOffsets
  /\ run = 1
  /\ tracking \in BOOLEAN
  /\ docs \in {[p \in Posts |-> IF p = 1 THEN d ELSE <<"H", "P">>] : d \in Documents}
  /\ tmplOk \in BOOLEAN
  /\ htmlRenderer = Nil
  /\ sawNil = [t \in Tasks |-> FALSE]
  /\ EnvInit
  /\ TasksIdle
  /\ batch = "none"
  /\ htmlBuffer = <<>>
  /\ bufSlice = [i \in Posts |-> <<>>]
  /\ gErr = NoErr
  /\ result = NoResult
  /\ snap = NoSnap
  /\ calls = <<>>
  /\ inits = 0
  /\ stamp = [p \in Posts |-> NoStamp]
  /\ last = [p \in Posts |-> Nil]

SpecExtract == InitExtract /\ [][NextSeq]_vars

\* Process runs that render the directory with RenderPosts, as build does.
NextRenderPosts ==
  \/ Step(1)
  \/ RenderPostsCall
  \/ RenderPostsLoop
  \/ RenderPostsReturn
  \/ Returned
  \/ Tick
  \/ NewProcess

SpecRenderPosts == Init /\ [][NextRenderPosts]_vars

\* ------------------------------------------------------------- registry harness
\* Goroutines that call the registry directly, and the explicit dates they pass:
\* a time of day after midnight, and the midnight of the next day.
Callers == {t \in Tasks : t <= 2}
Instants == {TicksPerDay + 1, 2 * TicksPerDay}

\* A fresh directory whose registry the harness has acquired once; every caller
\* holds that handle.
InitRegistry ==
  LET a == AcquireOp([file |-> NoFile, pool |-> Nil, hctr |-> 0, inits |-> 0,
                      stamp |-> [p \in Posts |-> NoStamp]])
  IN  /\ file = a.w.file
      /\ pool = a.w.pool
      /\ hctr = a.w.hctr
      /\ inits = a.w.inits
      /\ stamp = a.w.stamp
      /\ handle = [t \in Tasks |-> IF t \in Callers THEN a.handle ELSE Nil]
      /\ now = TicksPerDay
      /\ tz \in TZOffsets
      /\ run = 1
      /\ tracking = TRUE
      /\ docs = [p \in Posts |-> <<"H">>]
      /\ tmplOk = TRUE
      /\ htmlRenderer = Nil
      /\ sawNil = [t \in Tasks |-> FALSE]
      /\ EnvInit
      /\ pc = [t \in Tasks |-> "idle"]
      /\ post = [t \in Tasks |-> 0]
      /\ dt = [t \in Tasks |-> Nil]
      /\ out = [t \in Tasks |-> <<>>]
      /\ err = [t \in Tasks |-> NoErr]
      /\ batch = "none"
      /\ htmlBuffer = <<>>
      /\ bufSlice = [i \in Posts |-> <<>>]
      /\ gErr = NoErr
      /\ result = NoResult
      /\ snap = NoSnap
      /\ calls = <<>>
      /\ last = [p \in Posts |-> Nil]

\* Caller t calls registry.SetPublicationDate(post, arg); arg = Nil passes nil.
CallSet(t, name, arg) ==
  /\ Len(calls) < MaxCalls
  /\ handle[t] # Nil
  /\ LET s == SetPublicationDate(file, name, arg, now)
     IN  /\ file' = s.file
         /\ stamp' = IF s.err = NoErr THEN Stamped(stamp, name, UTCDay(s.date), run) ELSE stamp
         /\ calls' = Append(calls, [op |-> "set", task |-> t, name |-> name, arg |-> arg,
                                    date |-> s.date, err |-> s.err])
  /\ UNCHANGED <<pool, hctr, inits, cfgVars, now, run, taskVars, batchVars, last>>

\* Caller t calls registry.GetPublicationDate(post).
CallGet(t, name) ==
  /\ Len(calls) < MaxCalls
  /\ handle[t] # Nil
  /\ LET g == GetPublicationDate(file, name)
     IN  calls' = Append(calls, [op |-> "get", task |-> t, name |-> name, arg |-> Nil,
                                 date |-> g.date, err |-> g.err])
  /\ UNCHANGED <<storeVars, cfgVars, now, run, taskVars, batchVars, last>>

NextRegistry ==
  \/ \E t \in Callers, name \in Posts, arg \in {Nil} \cup Instants : CallSet(t, name, arg)
  \/ \E t \in Callers, name \in Posts : CallGet(t, name)
  \/ Tick

SpecRegistry == InitRegistry /\ [][NextRegistry]_vars

\* ------------------------------------------------------------- NewBlog harness
libVars == <<storeVars, tz, tracking, docs, tmplOk, htmlRenderer, sawNil, now, run, taskVars,
             batchVars, calls, last>>

\* A fresh process and a directory nothing was rendered from.
LibFresh ==
  /\ file = NoFile
  /\ pool = Nil
  /\ hctr = 0
  /\ now = TicksPerDay
  /\ run = 1
  /\ htmlRenderer = Nil
  /\ sawNil = [t \in Tasks |-> FALSE]
  /\ TasksIdle
  /\ batch = "none"
  /\ htmlBuffer = <<>>
  /\ bufSlice = [i \in Posts |-> <<>>]
  /\ gErr = NoErr
  /\ result = NoResult
  /\ snap = NoSnap
  /\ calls = <<>>
  /\ inits = 0
  /\ stamp = [p \in Posts |-> NoStamp]
  /\ last = [p \in Posts |-> Nil]

\* The option lists NewBlog is called with: none, those of build, an inline template.
OptionLists == {<<>>, <<OptTracking>>, <<OptFile, OptTracking>>,
                <<OptString(DefaultTemplate)>>}

\* Any blog directory, or no directory, or a file in its place; the template
\* file the options may name exists or not.
InitNewBlog ==
  /\ LibFresh
  /\ tz = 0
  /\ tracking = FALSE
  /\ docs = [p \in Posts |-> <<"H", "P">>]
  /\ tmplOk = TRUE
  /\ blogDir \in BlogDirs
  /\ blog = NoBlog
  /\ tmplFile \in {NoTmplFile, TmplFileOf(DefaultTemplate)}
  /\ built = NoBuilt
  /\ rendered = NoRendered
  /\ srcDir = SiteDir
  /\ outDir = NoOutDir
  /\ bld = NoBuild

\* The library's user calls NewBlog(directory, options...).
CallNewBlog(options) ==
  /\ LET r == NewBlog(blogDir, options, tmplFile)
     IN  blog' = [posts |-> r.posts, err |-> r.err, dir |-> blogDir, called |-> TRUE]
  /\ UNCHANGED <<libVars, blogDir, tmplFile, built, rendered, srcDir, outDir, bld>>

\* The user writes a file into the blog directory.
CreateEntry(e) ==
  /\ blogDir.kind = "dir"
  /\ e \notin blogDir.entries
  /\ blogDir' = [blogDir EXCEPT !.entries = @ \cup {e}]
  /\ UNCHANGED <<libVars, blog, tmplFile, built, rendered, srcDir, outDir, bld>>

\* The user removes a file from the blog directory.
RemoveEntry(e) ==
  /\ blogDir.kind = "dir"
  /\ e \in blogDir.entries
  /\ blogDir' = [blogDir EXCEPT !.entries = @ \ {e}]
  /\ UNCHANGED <<libVars, blog, tmplFile, built, rendered, srcDir, outDir, bld>>

NextNewBlog ==
  \/ \E options \in OptionLists : CallNewBlog(options)
  \/ \E e \in DirEntries : CreateEntry(e)
  \/ \E e \in DirEntries : RemoveEntry(e)

SpecNewBlog == InitNewBlog /\ [][NextNewBlog]_vars

\* ------------------------------------------------------------- template harness
BuiltKinds == {"s", "f"}
TmplFiles == {NoTmplFile} \cup {TmplFileOf(text) : text \in TemplateTexts}

\* One Markdown file, well formed or without heading, and a template file with
\* any text, or none.
InitTemplate ==
  /\ LibFresh
  /\ tz = 0
  /\ tracking = FALSE
  /\ docs \in {[p \in Posts |-> IF p = 1 THEN d ELSE <<"H", "P">>] : d \in DocChoices}
  /\ tmplOk = TRUE
  /\ blogDir = PostsDir
  /\ blog = NoBlog
  /\ tmplFile \in TmplFiles
  /\ built = NoBuilt
  /\ rendered = NoRendered
  /\ srcDir = SiteDir
  /\ outDir = NoOutDir
  /\ bld = NoBuild

\* The user writes the template file, or removes it.
WriteTemplateFile(tf) ==
  /\ tmplFile # tf
  /\ tmplFile' = tf
  /\ UNCHANGED <<libVars, blogDir, blog, built, rendered, srcDir, outDir, bld>>

\* NewBlogPost(fp, WithTemplateString(text)) on the Markdown file of post 1.
NewBlogPostString(text) ==
  /\ LET r == NewBlogPost(1, TRUE, <<OptString(text)>>, tmplFile)
     IN  built' = [built EXCEPT !.s = [b |-> r.b, err |-> r.err, text |-> TmplFileOf(text)]]
  /\ rendered' = [rendered EXCEPT !.s = NoRender]
  /\ UNCHANGED <<libVars, blogDir, blog, tmplFile, srcDir, outDir, bld>>

\* NewBlogPost(fp, WithTemplateFile(f)) on the Markdown file of post 1; text
\* records what the file holds when the option is applied.
NewBlogPostFile ==
  /\ LET r == NewBlogPost(1, TRUE, <<OptFile>>, tmplFile)
     IN  built' = [built EXCEPT !.f = [b |-> r.b, err |-> r.err, text |-> tmplFile]]
  /\ rendered' = [rendered EXCEPT !.f = NoRender]
  /\ UNCHANGED <<libVars, blogDir, blog, tmplFile, srcDir, outDir, bld>>

\* WriteHtml of the post built with the inline string (k = "s") or the file (k = "f").
WriteHtmlBuilt(k) ==
  /\ built[k].err = NoErr
  /\ rendered[k] = NoRender
  /\ rendered' = [rendered EXCEPT ![k] = WriteHtmlWith(built[k].b, docs[1],
                                                        FormatDateOnly(now, tz))]
  /\ UNCHANGED <<libVars, blogDir, blog, tmplFile, built, srcDir, outDir, bld>>

NextTemplate ==
  \/ \E tf \in TmplFiles : WriteTemplateFile(tf)
  \/ \E text \in TemplateTexts : NewBlogPostString(text)
  \/ NewBlogPostFile
  \/ \E k \in BuiltKinds : WriteHtmlBuilt(k)

SpecTemplate == InitTemplate /\ [][NextTemplate]_vars

\* ------------------------------------------------------------- build
\* The directories build is run on: the source directory is missing, a file,
\* or holds a stylesheet and no, one or two page templates; the output
\* directory is missing, empty or holds a file; the blog directory is missing,
\* empty or holds the posts; the post template file is missing, the default
\* template or a text that does not parse.
SrcChoices == {[kind |-> "missing", files |-> {}], [kind |-> "file", files |-> {}],
               [kind |-> "dir", files |-> {IndexCss}], SiteDir,
               [kind |-> "dir", files |-> SrcNames]}
OutChoices == {NoOutDir, [exists |-> TRUE, files |-> {}],
               [exists |-> TRUE, files |-> {[name |-> IndexCss, content |-> OldBytes]}]}
BlogChoices == {NoDir, [kind |-> "dir", entries |-> {}], PostsDir}
TmplChoices == {NoTmplFile, TmplFileOf(DefaultTemplate), TmplFileOf(<<"{{">>)}

InitBuild ==
  /\ LibFresh
  /\ tz = 0
  /\ tracking = TRUE
  /\ docs \in [Posts -> DocChoices]
  /\ tmplOk = TRUE
  /\ blogDir \in BlogChoices
  /\ blog = NoBlog
  /\ tmplFile \in TmplChoices
  /\ built = NoBuilt
  /\ rendered = NoRendered
  /\ srcDir \in SrcChoices
  /\ outDir \in OutChoices
  /\ bld = NoBuild

\* build returns the error e.
BuildFail(e) == bld' = [bld EXCEPT !.pc = "failed", !.err = e]

\* The command runs build(src, blog, out, options); out0 and file0 record the
\* output directory and the store file at the call.
BuildCall(force, postTemplateFile) ==
  /\ bld.pc = "idle"
  /\ batch = "none"
  /\ AllIdle
  /\ bld' = [pc |-> "overwrite", force |-> force, postTemplateFile |-> postTemplateFile,
             err |-> NoErr, html |-> <<>>, out0 |-> outDir, file0 |-> file]
  /\ UNCHANGED <<libVars, blogDir, blog, tmplFile, built, rendered, srcDir, outDir>>

\* build: overwriteDirectoryContents(sourceDirectory, outputDirectory, options.Force)
BuildOverwrite ==
  /\ bld.pc = "overwrite"
  /\ LET r == overwriteDirectoryContents(srcDir, outDir, bld.force)
     IN  /\ outDir' = r.dst
         /\ IF r.err # NoErr THEN BuildFail(r.err) ELSE bld' = [bld EXCEPT !.pc = "newblog"]
  /\ UNCHANGED <<libVars, blogDir, blog, tmplFile, built, rendered, srcDir>>

\* build: NewBlog with WithPublicationTracking, and WithTemplateFile when
\* options.PostTemplateFile is set; the posts render with the template they got.
BuildNewBlog ==
  /\ bld.pc = "newblog"
  /\ LET r == NewBlog(blogDir, IF bld.postTemplateFile THEN <<OptFile, OptTracking>>
                               ELSE <<OptTracking>>, tmplFile)
     IN  /\ blog' = [posts |-> r.posts, err |-> r.err, dir |-> blogDir, called |-> TRUE]
         /\ IF r.err # NoErr
            THEN BuildFail("NewBlog") /\ UNCHANGED tmplOk
            ELSE /\ bld' = [bld EXCEPT !.pc = "render"]
                 /\ tmplOk' = TemplateParses(r.posts[1].template)
  /\ UNCHANGED <<storeVars, tz, tracking, docs, htmlRenderer, sawNil, now, run, taskVars,
                 batchVars, calls, last, blogDir, tmplFile, built, rendered, srcDir, outDir>>

\* build: blog.RenderPosts() is called.
BuildRender ==
  /\ bld.pc = "render"
  /\ RenderPostsCall

\* build: blog.RenderPosts() has returned; its goroutine state is gone.
BuildRendered ==
  /\ bld.pc = "render"
  /\ batch = "returned"
  /\ IF result.err # NoBatchErr
     THEN BuildFail("Render")
     ELSE bld' = [bld EXCEPT !.pc = "index", !.html = result.out]
  /\ batch' = "none"
  /\ pc' = [t \in Tasks |-> "idle"]
  /\ post' = [t \in Tasks |-> 0]
  /\ handle' = [t \in Tasks |-> Nil]
  /\ dt' = [t \in Tasks |-> Nil]
  /\ out' = [t \in Tasks |-> <<>>]
  /\ err' = [t \in Tasks |-> NoErr]
  /\ htmlBuffer' = <<>>
  /\ bufSlice' = [i \in Posts |-> <<>>]
  /\ gErr' = NoErr
  /\ result' = NoResult
  /\ snap' = NoSnap
  /\ UNCHANGED <<storeVars, tz, tracking, docs, tmplOk, htmlRenderer, sawNil, now, run, calls,
                 last, blogDir, blog, tmplFile, built, rendered, srcDir, outDir>>

\* build: exactly one *.html.tmpl of the source directory is executed on the
\* rendered posts and written to index.html of the output directory.
BuildIndex ==
  /\ bld.pc = "index"
  /\ LET matches == {f \in srcDir.files : f.suffix = ".html.tmpl"}
     IN  IF Cardinality(matches) # 1
         THEN BuildFail("TemplateCount") /\ UNCHANGED outDir
         ELSE /\ outDir' = [outDir EXCEPT !.files =
                              {f \in @ : f.name # IndexHtml}
                                \cup {[name |-> IndexHtml, content |-> Page(bld.html)]}]
              /\ bld' = [bld EXCEPT !.pc = "done"]
  /\ UNCHANGED <<libVars, blogDir, blog, tmplFile, built, rendered, srcDir>>

\* build has returned and the command exits; the directories and the store stay.
BuildExit ==
  /\ bld.pc \in {"done", "failed"}
  /\ run < MaxRuns
  /\ run' = run + 1
  /\ pool' = Nil
  /\ hctr' = 0
  /\ inits' = 0
  /\ htmlRenderer' = Nil
  /\ bld' = NoBuild
  /\ blog' = NoBlog
  /\ UNCHANGED <<file, stamp, tz, tracking, docs, tmplOk, sawNil, now, taskVars, batchVars,
                 calls, last, blogDir, tmplFile, built, rendered, srcDir, outDir>>

NextBuild ==
  \/ \E force, postTemplateFile \in BOOLEAN : BuildCall(force, postTemplateFile)
  \/ BuildOverwrite
  \/ BuildNewBlog
  \/ BuildRender
  \/ Step(1)
  \/ RenderPostsLoop
  \/ RenderPostsReturn
  \/ BuildRendered
  \/ BuildIndex
  \/ BuildExit
  \/ Tick

SpecBuild == InitBuild /\ [][NextBuild]_vars

\* ------------------------------------------------------------- claims
IsSet(c, name) == c.op = "set" /\ c.name = name
AcquireReturned(t) == handle[t] # Nil /\ pc[t] # "store"
AsyncReturned == batch = "returned" /\ result.mode = "async"

\* C1: a date stored for a post by a tracking-enabled WriteHtml in an earlier
\* process run is the date every tracking-enabled WriteHtml of that post renders
\* in a later run.
C1_StampedDateReproduced ==
  \A t \in Tasks :
    (tracking /\ pc[t] = "done" /\ stamp[post[t]].day # Nil /\ stamp[post[t]].run < run)
      => out[t][1].day = stamp[post[t]].day

\* C2: from a fresh directory with tracking enabled, WriteHtml calls of the same
\* post made one after the other render the same date, and after each of them
\* the store holds exactly one entry for the post's name.
C2_PublicationDateIdempotent ==
  \A t \in Tasks :
    (tracking /\ pc[t] = "done")
      => /\ CountRows(file.rows, post[t]) = 1
         /\ last[post[t]] # Nil => out[t][1].day = last[post[t]]

\* C2 witness: a second render of a post, on a later day than the first.
C2_Witness ==
  /\ tracking
  /\ pc[1] = "done"
  /\ last[post[1]] # Nil
  /\ UTCDay(now) # last[post[1]]

\* C3: registry initialization run against a store that exists leaves every
\* entry of the store in place.
C3_InitKeepsEntries ==
  [][(file.exists /\ \E t \in Tasks : pc[t] \in {"create", "table", "index"}
                                      /\ pc'[t] # pc[t])
       => file'.rows = file.rows]_vars

\* C4: however many Acquire calls race, the store is initialized once in a
\* process run and every Acquire that has returned gave its caller the handle
\* installed in the pool.
C4_OneInitOneHandle ==
  /\ inits <= 1
  /\ \A t \in Tasks : AcquireReturned(t) => handle[t] = pool

\* C5: of two SetPublicationDate calls by different callers on one registry for
\* a name never set before, the one the store serves first succeeds and the
\* other fails with the uniqueness error, and the store then holds exactly one
\* entry for the name.
C5_ConcurrentSetOneWinner ==
  \A i, j \in 1..Len(calls), name \in Posts :
    (/\ i < j
     /\ IsSet(calls[i], name) /\ IsSet(calls[j], name)
     /\ calls[i].task # calls[j].task
     /\ \A k \in 1..(i - 1) : ~IsSet(calls[k], name))
      => /\ calls[i].err = NoErr /\ calls[i].date # Nil
         /\ calls[j].err = "Unique"
         /\ CountRows(file.rows, name) = 1

\* C5 witness: two callers have both called SetPublicationDate for one name.
C5_Witness ==
  \E i, j \in 1..Len(calls), name \in Posts :
    /\ i < j
    /\ IsSet(calls[i], name) /\ IsSet(calls[j], name)
    /\ calls[i].task # calls[j].task
    /\ calls[i].arg = calls[j].arg

\* C6: SetPublicationDate for a name that has an entry fails with the
\* uniqueness error and returns no date, and the stored date stays the one set
\* first.
C6_DuplicateSetRejected ==
  \A i, j \in 1..Len(calls), name \in Posts :
    (/\ i < j
     /\ IsSet(calls[i], name) /\ IsSet(calls[j], name)
     /\ calls[i].err = NoErr)
      => /\ calls[j].err = "Unique"
         /\ calls[j].date = Nil
         /\ GetPublicationDate(file, name) = [date |-> calls[i].date, err |-> NoErr]

\* C6 witness: a second SetPublicationDate for a name, with a date of another
\* day than the one stored.
C6_Witness ==
  \E i, j \in 1..Len(calls), name \in Posts :
    /\ i < j
    /\ IsSet(calls[i], name) /\ IsSet(calls[j], name)
    /\ calls[i].err = NoErr
    /\ calls[j].arg # Nil
    /\ UTCDay(calls[j].arg) # UTCDay(calls[i].date)

\* C7: an entry of the store is never removed and its date never changed.
C7_WriteOnce ==
  [][\A i \in 1..Len(file.rows) :
       \E j \in 1..Len(file'.rows) : file'.rows[j] = file.rows[i]]_vars

\* C8: RenderPostsAsync returns a non-nil error and no output when the
\* rendering task of some post failed.
C8_AsyncReportsFailure ==
  (AsyncReturned /\ \E t \in Tasks : pc[t] = "failed")
    => result.err # NoBatchErr /\ result.out = <<>>

\* C9: RenderPostsAsync returns what RenderPosts returns on the same store, pool
\* and clock: the same bytes when RenderPosts renders every post, an error when
\* RenderPosts returns an error.
C9_AsyncEqualsSequential ==
  (AsyncReturned /\ now = snap.now)
    => LET r == RenderPostsOp(snap.w, snap.now)
       IN  IF r.err = NoBatchErr
           THEN result.err = NoBatchErr /\ result.out = r.out
           ELSE result.err # NoBatchErr

\* C10: in RenderPostsAsync a slot holds only the fragment of the post of its
\* index, and when every task succeeded the output has the fragment of post i at
\* position i.
C10_OutputInIndexOrder ==
  /\ \A i \in Posts : bufSlice[i] # <<>> => bufSlice[i] = Fragment(i, bufSlice[i][1].day)
  /\ (AsyncReturned /\ \A t \in Tasks : pc[t] = "done")
       => /\ Len(result.out) = NumPosts
          /\ \A i \in Posts : result.out[i].post = i

\* C10 witness: RenderPostsAsync returned the whole output after the task of the
\* last post had been scheduled to fetch its date before the task of the first.
C10_Witness ==
  /\ AsyncReturned
  /\ Len(result.out) = NumPosts
  /\ tracking
  /\ file.rows # <<>>
  /\ file.rows[1].name = NumPosts

\* WriteHtml of post p, called alone, returns nil: the document passes
\* extraction and the template executes.
Renders(p) == Extract(docs[p]).err = NoErr /\ tmplOk
SeqReturned == batch = "returned" /\ result.mode = "seq"

\* C11: RenderPosts renders the posts in collection order and returns at the
\* first post whose WriteHtml fails: the error names that post, the output is
\* empty although the buffer holds the fragments of the posts before it, and no
\* later post was rendered or got a registry entry.
C11_FailFast ==
  (SeqReturned /\ \E q \in Posts : ~Renders(q))
    => LET k == CHOOSE q \in Posts : ~Renders(q) /\ \A r \in 1..(q - 1) : Renders(r)
       IN  /\ result.out = <<>>
           /\ result.err.post = k /\ result.err.cause # NoErr
           /\ post[1] = k
           /\ Len(htmlBuffer) = k - 1
           /\ \A q \in 1..(k - 1) : htmlBuffer[q].post = q
           /\ \A q \in (k + 1)..NumPosts : ~HasRow(file.rows, q)

\* C11 witness: RenderPosts returned the error of the last post after it had
\* rendered and stamped the posts before it.
C11_Witness ==
  /\ SeqReturned
  /\ result.err.post = NumPosts
  /\ htmlBuffer # <<>>
  /\ tracking
  /\ HasRow(file.rows, 1)

\* C12: when every post renders, RenderPosts returns no error and exactly one
\* fragment per post, the fragment of post i at position i, with the post's
\* stored date when tracking is enabled, and nothing else.
C12_ConcatenationInOrder ==
  (SeqReturned /\ \A q \in Posts : Renders(q))
    => /\ result.err = NoBatchErr
       /\ Len(result.out) = NumPosts
       /\ \A i \in Posts : <<result.out[i]>> = Fragment(i, result.out[i].day)
       /\ tracking => \A i \in Posts :
                        <<result.out[i]>> = Fragment(i, FirstRow(file.rows, i).day)

\* C12 witness: RenderPosts returned the whole output, the posts stamped on
\* different days.
C12_Witness ==
  /\ SeqReturned
  /\ result.err = NoBatchErr
  /\ tracking
  /\ Len(result.out) = NumPosts
  /\ result.out[1].day # result.out[NumPosts].day

\* C13: with tracking enabled, a WriteHtml whose GetPublicationDate finds an
\* entry takes the stored date, leaves the store alone and renders that date;
\* a WriteHtml reaches SetPublicationDate only from a GetPublicationDate that
\* found no entry for its post, and only SetPublicationDate adds an entry.
C13_StoredDateUsedAsIs ==
  [][\A t \in Tasks :
       /\ (pc[t] # "set" /\ pc'[t] = "set")
            => pc[t] = "get" /\ ~HasRow(file.rows, post[t])
       /\ (pc[t] = "get" /\ pc'[t] # "get" /\ file.table /\ HasRow(file.rows, post[t]))
            => /\ pc'[t] = "tmpl"
               /\ dt'[t] = Midnight(FirstRow(file.rows, post[t]).day)
               /\ file' = file
       /\ (tracking /\ pc[t] = "tmpl" /\ pc'[t] = "done")
            => out'[t] = Fragment(post[t], UTCDay(dt[t]))
       /\ file'.rows # file.rows => \E u \in Tasks : pc[u] \in {"set", "create"}]_vars

\* C13 witness: a WriteHtml about to render a date it read from the store, the
\* post rendered before and today being another day.
C13_Witness ==
  /\ tracking
  /\ pc[1] = "tmpl"
  /\ last[post[1]] # Nil
  /\ HasRow(file.rows, post[1])
  /\ dt[1] = Midnight(last[post[1]])
  /\ UTCDay(now) > last[post[1]]

\* C14: with tracking disabled a WriteHtml takes the instant of its time.Now()
\* call as the date and renders that instant's calendar date; no store file is
\* created, no handle is acquired or installed, and no entry is read or written.
C14_UntrackedNoEffect ==
  [][~tracking =>
       /\ file' = NoFile /\ pool' = Nil /\ hctr' = 0 /\ inits' = 0
       /\ \A t \in Tasks :
            /\ handle'[t] = Nil
            /\ pc'[t] \notin {"load", "create", "table", "index", "store", "get", "set"}
            /\ (pc[t] = "begin" /\ pc'[t] # "begin" /\ pc'[t] # "failed")
                 => pc'[t] = "tmpl" /\ dt'[t] = now
            /\ (pc[t] = "tmpl" /\ pc'[t] = "done")
                 => out'[t] = Fragment(post[t], FormatDateOnly(dt[t], tz))]_vars

\* C14 witness: two untracked renders of a post on different days have returned.
C14_Witness ==
  /\ ~tracking
  /\ pc[1] = "done"
  /\ last[post[1]] # Nil
  /\ out[1][1].day # last[post[1]]
  /\ file = NoFile

\* C15: a GetPublicationDate call never changes the store; for a name without
\* an entry it returns no date and no error, for a name with an entry the stored
\* date, and it returns an error only when the store cannot be queried.
C15_GetAbsentIsNotAnError ==
  [][\A t \in Tasks :
       (pc[t] = "get" /\ pc'[t] # "get")
         => /\ file' = file
            /\ pc'[t] = "failed" <=> ~file.table
            /\ (file.table /\ ~HasRow(file.rows, post[t]))
                 => pc'[t] = "set" /\ dt'[t] = Nil /\ err'[t] = NoErr
            /\ (file.table /\ HasRow(file.rows, post[t]))
                 => /\ dt'[t] = Midnight(FirstRow(file.rows, post[t]).day)
                    /\ err'[t] = NoErr]_vars

\* C15 witness: GetPublicationDate returned absent for a post while the store
\* holds an entry of another post.
C15_Witness ==
  \E t \in Tasks :
    /\ pc[t] = "set"
    /\ dt[t] = Nil
    /\ file.rows # <<>>
    /\ ~HasRow(file.rows, post[t])

NodesOf(t) == docs[post[t]]
CountKind(nodes, k) == Cardinality({i \in 1..Len(nodes) : nodes[i] = k})
ParagraphNodes(nodes) == SelectSeq([i \in 1..Len(nodes) |-> i], LAMBDA i : nodes[i] = "P")
Extracted(t) == pc[t] \notin {"idle", "begin"}
ExtractionFailed(t, e) == pc[t] = "failed" /\ err[t] = e
ExtractionErrors == {"MultipleHeadings", "UnsupportedBlock", "NoHeading", "NoParagraphs"}

\* C17: a document of exactly one heading, at least one paragraph and no other
\* node passes extraction, and the body is made of all its paragraphs, each once,
\* in source order.
C17_WellFormedExtracts ==
  \A t \in Tasks :
    (/\ Extracted(t)
     /\ CountKind(NodesOf(t), "H") = 1
     /\ CountKind(NodesOf(t), "P") >= 1
     /\ CountKind(NodesOf(t), "O") = 0)
      => /\ err[t] \notin ExtractionErrors
         /\ Extract(NodesOf(t)) = [err |-> NoErr, heading |-> TRUE,
                                    paragraphs |-> ParagraphNodes(NodesOf(t))]

\* C17 witness: a post with a paragraph on either side of its heading was rendered.
C17_Witness ==
  /\ pc[1] = "done"
  /\ post[1] = 1
  /\ docs[1] = <<"P", "H", "P">>

\* C18 as stated: a document without a heading fails extraction with NoHeading,
\* whatever other nodes it holds.
C18_NoHeadingAlways ==
  \A t \in Tasks :
    (Extracted(t) /\ CountKind(NodesOf(t), "H") = 0) => ExtractionFailed(t, "NoHeading")

\* C18, amended: a document without a heading whose nodes are all paragraphs
\* (the empty document included) fails extraction with NoHeading; one that also
\* holds another kind of node fails with UnsupportedBlock.
C18_NoHeading ==
  \A t \in Tasks :
    (Extracted(t) /\ CountKind(NodesOf(t), "H") = 0)
      => IF CountKind(NodesOf(t), "O") = 0
         THEN ExtractionFailed(t, "NoHeading")
         ELSE ExtractionFailed(t, "UnsupportedBlock")

\* C18 witness: WriteHtml failed with NoHeading on a document of paragraphs only.
C18_Witness ==
  /\ ExtractionFailed(1, "NoHeading")
  /\ post[1] = 1
  /\ docs[1] = <<"P", "P">>

\* The second heading of a document, and the first node that is neither a
\* heading nor a paragraph (Len + 1 when there is none).
SecondHeading(nodes) ==
  IF CountKind(nodes, "H") < 2 THEN Len(nodes) + 1
  ELSE CHOOSE i \in 1..Len(nodes) :
         nodes[i] = "H" /\ CountKind(SubSeq(nodes, 1, i - 1), "H") = 1
FirstOther(nodes) ==
  IF CountKind(nodes, "O") = 0 THEN Len(nodes) + 1
  ELSE CHOOSE i \in 1..Len(nodes) :
         nodes[i] = "O" /\ CountKind(SubSeq(nodes, 1, i - 1), "O") = 0

\* C19 as stated: a document with two or more headings fails extraction with
\* MultipleHeadings, whatever other nodes it holds and wherever they stand.
C19_MultipleHeadingsAlways ==
  \A t \in Tasks :
    (Extracted(t) /\ CountKind(NodesOf(t), "H") >= 2)
      => ExtractionFailed(t, "MultipleHeadings")

\* C19, amended: a document with two or more headings fails extraction: with
\* MultipleHeadings when no node other than headings and paragraphs stands
\* before its second heading, with UnsupportedBlock otherwise.
C19_MultipleHeadings ==
  \A t \in Tasks :
    (Extracted(t) /\ CountKind(NodesOf(t), "H") >= 2)
      => IF SecondHeading(NodesOf(t)) < FirstOther(NodesOf(t))
         THEN ExtractionFailed(t, "MultipleHeadings")
         ELSE ExtractionFailed(t, "UnsupportedBlock")

\* C19 witness: WriteHtml failed with MultipleHeadings on a document whose
\* headings are separated by a paragraph.
C19_Witness ==
  /\ ExtractionFailed(1, "MultipleHeadings")
  /\ post[1] = 1
  /\ docs[1] = <<"H", "P", "H">>

\* C20 as stated: a document with a node that is neither heading nor paragraph
\* fails extraction with UnsupportedBlock, whatever its headings and paragraphs.
C20_UnsupportedBlockAlways ==
  \A t \in Tasks :
    (Extracted(t) /\ CountKind(NodesOf(t), "O") >= 1)
      => ExtractionFailed(t, "UnsupportedBlock")

\* C20, amended: a document with a node that is neither heading nor paragraph
\* always fails extraction and is never rendered: with UnsupportedBlock when the
\* first such node stands before any second heading, with MultipleHeadings when
\* a second heading comes first.
C20_UnsupportedBlock ==
  \A t \in Tasks :
    (Extracted(t) /\ CountKind(NodesOf(t), "O") >= 1)
      => /\ out[t] = <<>>
         /\ IF FirstOther(NodesOf(t)) < SecondHeading(NodesOf(t))
            THEN ExtractionFailed(t, "UnsupportedBlock")
            ELSE ExtractionFailed(t, "MultipleHeadings")

\* C20 witness: WriteHtml failed with UnsupportedBlock on a document that is
\* well-formed up to its last node.
C20_Witness ==
  /\ ExtractionFailed(1, "UnsupportedBlock")
  /\ post[1] = 1
  /\ docs[1] = <<"H", "P", "O">>

\* The first heading of a document (Len + 1 when there is none).
FirstHeading(nodes) ==
  IF CountKind(nodes, "H") = 0 THEN Len(nodes) + 1
  ELSE CHOOSE i \in 1..Len(nodes) :
         nodes[i] = "H" /\ CountKind(SubSeq(nodes, 1, i - 1), "H") = 0

\* C21 as stated: a document of one heading and paragraphs fails extraction with
\* NoParagraphs whenever no paragraph stands after the heading.
C21_NoParagraphAfterHeading ==
  \A t \in Tasks :
    (/\ Extracted(t)
     /\ CountKind(NodesOf(t), "H") = 1
     /\ CountKind(NodesOf(t), "O") = 0
     /\ \A i \in (FirstHeading(NodesOf(t)) + 1)..Len(NodesOf(t)) : NodesOf(t)[i] # "P")
      => ExtractionFailed(t, "NoParagraphs")

\* C21, amended: a document of one heading and paragraphs fails extraction with
\* NoParagraphs exactly when it has no paragraph at all; paragraphs that stand
\* before the heading count.
C21_NoParagraphs ==
  \A t \in Tasks :
    (/\ Extracted(t)
     /\ CountKind(NodesOf(t), "H") = 1
     /\ CountKind(NodesOf(t), "O") = 0)
      => (ExtractionFailed(t, "NoParagraphs") <=> CountKind(NodesOf(t), "P") = 0)

\* C21 witness: WriteHtml failed with NoParagraphs on a document that is a
\* heading alone.
C21_Witness ==
  /\ ExtractionFailed(1, "NoParagraphs")
  /\ post[1] = 1
  /\ docs[1] = <<"H">>

\* C25: tracking-enabled WriteHtml calls, which call GetPublicationDate first
\* and SetPublicationDate only when it returned absent, never fail with the
\* uniqueness error, also when they run concurrently for the same new post, and
\* calls for the same post that have succeeded rendered the same date.
C25_SequencingNeverDuplicates ==
  /\ \A t \in Tasks : ~(pc[t] = "failed" /\ err[t] = "Unique")
  /\ \A t, u \in Tasks :
       (tracking /\ pc[t] = "done" /\ pc[u] = "done" /\ post[t] = post[u])
         => out[t] = out[u]

\* C27: in RenderPostsAsync slot i is written only by the task of index i, once,
\* when that task's WriteHtml has succeeded; RenderPostsAsync reads the slots and
\* returns only when every task has finished, and what it returns is the slots
\* as they then are; no slot is written after it has returned.
C27_SlotsAndBarrier ==
  [][/\ \A i \in Posts :
          bufSlice'[i] # bufSlice[i]
            => \/ batch = "returned" /\ batch' = "none"
               \/ /\ batch = "async"
                  /\ pc[i] = "tmpl" /\ pc'[i] = "done"
                  /\ bufSlice[i] = <<>>
                  /\ \A j \in Posts \ {i} : bufSlice'[j] = bufSlice[j]
     /\ (batch = "async" /\ batch' = "returned")
          => /\ \A t \in Tasks : Finished(t)
             /\ bufSlice' = bufSlice
             /\ result'.out \in {<<>>, CollectFrom(bufSlice, 1)}
     /\ (batch = "returned" /\ batch' = "returned") => bufSlice' = bufSlice]_vars

\* C27 witness: RenderPostsAsync returned after a task had failed and another
\* had written its slot.
C27_Witness ==
  /\ AsyncReturned
  /\ \E t, u \in Tasks : pc[t] = "failed" /\ pc[u] = "done" /\ bufSlice[u] # <<>>

\* The date a tracking-enabled first render of post p would stamp at instant c:
\* SetPublicationDate(p, nil) on a store just initialized.
FirstStamp(p, c) ==
  SetPublicationDate(CreateIndex(CreateTable(OsCreate(NoFile)).file).file, p, Nil, c).date

\* C28: with tracking disabled WriteHtml renders the UTC calendar date of the
\* instant of the call, whatever the local zone of the process, which is the
\* date a tracking-enabled first render would stamp at that instant.
C28_UntrackedDateIsUTC ==
  \A t \in Tasks :
    (~tracking /\ pc[t] = "done")
      => /\ out[t] = Fragment(post[t], UTCDay(dt[t]))
         /\ out[t] = Fragment(post[t], FormatDateOnly(FirstStamp(post[t], dt[t]), 0))

\* C29: while the process runs, a handle installed in the pool stays installed;
\* an Acquire that starts when a handle is installed returns that handle in one
\* step, without initializing the store again and without touching the store
\* file.
C29_InstalledHandleReused ==
  [][(pool # Nil /\ run' = run)
       => /\ pool' = pool
          /\ \A t \in Tasks :
               (pc[t] = "load" /\ pc'[t] # "load")
                 => /\ pc'[t] = "get"
                    /\ handle'[t] = pool
                    /\ file' = file
                    /\ inits' = inits /\ hctr' = hctr]_vars

\* C29 witness: an Acquire returned the installed handle while the store held
\* an entry written through it.
C29_Witness ==
  \E t \in Tasks :
    /\ pc[t] = "get"
    /\ handle[t] = pool
    /\ hctr = 1 /\ inits = 1
    /\ file.rows # <<>>

\* C30: a WriteHtml call writes to its writer once, in the step in which it
\* succeeds, and what it writes is one whole fragment of its post; a call that
\* has not succeeded, or has failed, has written nothing.
C30_AllOrNothing ==
  [][\A t \in Tasks :
       /\ pc'[t] # "done" => out'[t] = <<>>
       /\ pc'[t] = "done" => out'[t] = Fragment(post'[t], out'[t][1].day)
       /\ out'[t] # out[t]
            => \/ out'[t] = <<>>
               \/ pc[t] = "tmpl" /\ pc'[t] = "done" /\ out[t] = <<>>]_vars

\* C30 witness: of two concurrent WriteHtml calls one has failed with a storage
\* error and written nothing, the other has succeeded.
C30_Witness ==
  \E t, u \in Tasks :
    /\ pc[t] = "failed" /\ err[t] \in {"Unique", "NoTable"} /\ out[t] = <<>>
    /\ pc[u] = "done" /\ Len(out[u]) = 1

\* C26: while RenderPostsAsync runs, no task is about to assign a package
\* variable other than the pool map while another task is about to read or
\* assign it: nothing orders the tasks' accesses to htmlRenderer.
C26_OnlyPoolShared ==
  batch = "async"
    => ~\E t, u \in Tasks :
          /\ t # u
          /\ pc[t] = "begin" /\ sawNil[t]
          /\ pc[u] = "begin"

\* C22: NewBlog on a directory without *.md file returns an error and no posts;
\* a NewBlog that returns no error returns at least one post, exactly one per
\* *.md file the directory held, in the order of the names.
C22_NewBlogNeedsMarkdown ==
  blog.called =>
    LET md == {e \in blog.dir.entries : e.md}
    IN  /\ md = {} => (blog.err # NoErr /\ blog.posts = <<>>)
        /\ blog.err = NoErr =>
             /\ Len(blog.posts) >= 1
             /\ Len(blog.posts) = Cardinality(md)
             /\ {blog.posts[i].FilePath : i \in 1..Len(blog.posts)} = {e.base : e \in md}
             /\ \A i, j \in 1..Len(blog.posts) :
                  i < j => blog.posts[i].FilePath < blog.posts[j].FilePath

\* C22 witness: NewBlog has failed with NoMarkdown on an existing directory that
\* holds files, none of them *.md.
C22_Witness ==
  /\ blog.called
  /\ blog.dir.kind = "dir"
  /\ blog.dir.entries # {}
  /\ \A e \in blog.dir.entries : ~e.md
  /\ blog.err = "NoMarkdown"
  /\ blog.posts = <<>>

\* C23: a post built with WithTemplateString(T) and a post built with
\* WithTemplateFile(f), f holding T when the option was applied, return the same
\* from WriteHtml: the same bytes or the same error.
C23_StringAndFileAgree ==
  (rendered.s # NoRender /\ rendered.f # NoRender /\ built.s.text = built.f.text)
    => rendered.s = rendered.f

\* C23 witness: both posts have rendered the same non-default template without
\* error, and the template file has been rewritten since the option read it.
C23_Witness ==
  /\ rendered.s # NoRender /\ rendered.f # NoRender
  /\ built.s.text = built.f.text
  /\ built.f.text.text # DefaultTemplate
  /\ tmplFile # built.f.text
  /\ rendered.f.err = NoErr
  /\ rendered.f.out # <<>>

\* The build that is running or has returned was called with Force false on an
\* output directory that held files.
NotForcedOnFiles ==
  /\ bld.pc \notin {"idle", "overwrite"}
  /\ ~bld.force
  /\ bld.out0.exists /\ bld.out0.files # {}

\* build has failed with error e and nothing else has happened: the output
\* directory and the store file are as they were at the call, no post is being
\* or has been rendered, no Blog was made.
FailedUntouched(e) ==
  /\ bld.pc = "failed" /\ bld.err = e
  /\ outDir = bld.out0
  /\ file = bld.file0
  /\ batch = "none" /\ AllIdle
  /\ ~blog.called

\* C24 as stated: build with Force false and a non-empty output directory fails
\* with the not-empty error before anything else happens, whatever the source
\* directory is.
C24_NotEmptyAlways == NotForcedOnFiles => FailedUntouched("NotEmpty")

\* C24: build with Force false and a non-empty output directory fails before
\* anything else happens, output directory and store unchanged and no post
\* rendered: with the not-empty error when the source directory is a
\* directory, with the error of the source directory check otherwise.
C24_NotEmptyFailsFirst ==
  NotForcedOnFiles =>
    FailedUntouched(IF srcDir.kind = "dir" THEN "NotEmpty"
                    ELSE IF srcDir.kind = "missing" THEN "SrcStat" ELSE "SrcNotDir")

\* C24 witness: a second build without Force has failed with the not-empty error
\* on the output directory the first build filled, posts to render at hand.
C24_Witness ==
  /\ NotForcedOnFiles
  /\ FailedUntouched("NotEmpty")
  /\ run = 2
  /\ \E f \in outDir.files : f.name = IndexHtml /\ f.content.kind = "page"
  /\ blogDir = PostsDir

\* C31: with tracking enabled, a WriteHtml that fails extraction (no heading,
\* multiple headings, unsupported block, no paragraphs) fails from its first
\* step: up to and including that step the call holds no registry handle, and
\* the store file, the pool and the stored entries are as they were.
C31_ValidationBeforeRegistry ==
  [][\A t \in Tasks :
       /\ (tracking /\ pc[t] = "begin")
            => /\ handle[t] = Nil /\ handle'[t] = Nil
               /\ file' = file /\ pool' = pool /\ hctr' = hctr
               /\ inits' = inits /\ stamp' = stamp
       /\ (pc[t] # "failed" /\ pc'[t] = "failed" /\ err'[t] \in ExtractionErrors)
            => pc[t] = "begin"]_vars

\* C31 witness: a tracking-enabled WriteHtml has failed extraction in a fresh
\* directory: no handle, no pool entry, no store file.
C31_Witness ==
  /\ tracking
  /\ \E e \in ExtractionErrors : ExtractionFailed(1, e)
  /\ handle[1] = Nil
  /\ pool = Nil
  /\ file = NoFile
  /\ stamp[post[1]] = NoStamp

\* Post p has an entry in the store; no WriteHtml call of p is under way.
HasEntry(p) == GetPublicationDate(file, p).date # Nil
NoCallUnderWay(p) == \A t \in Tasks : post[t] = p => pc[t] \in {"idle", "done", "failed"}
Succeeded(p) == last[p] # Nil \/ \E t \in Tasks : post[t] = p /\ pc[t] = "done"

\* C32: a registry entry for a post exists only if some WriteHtml of that post
\* succeeded: once no call of the post is under way, an entry implies an earlier
\* or just finished successful WriteHtml of it.
C32_EntryOnlyAfterSuccess ==
  \A p \in Posts : (HasEntry(p) /\ NoCallUnderWay(p)) => Succeeded(p)

\* C33: whenever build has returned an error the output directory is as it was
\* when build was called, also with Force.
C33_FailedBuildKeepsOutput ==
  bld.pc = "failed" => outDir = bld.out0

====
